---- MODULE Spec2Model ----
(***************************************************************************)
(* Model of suseejs/check: src/index.ts (strict entry points               *)
(* fileExtensionAndFormat and checkTypes) and src/index.cts (lenient entry *)
(* point check).  A run is one call of one entry point on one batch.       *)
(***************************************************************************)
EXTENDS Integers, Sequences, FiniteSets, TLC

\* ------------------------------------------------------------------ bounds

\* Longest batch of the whole-entry-point specification Spec.
MaxLen == 2
\* Longest batch of the checkExtGroup specification SpecExt.
MaxExtLen == 3
\* Longest batch of the checkModuleFormat specification SpecFmt.
MaxFmtLen == 3

\* ------------------------------------------------- file names and suffixes

\* File names are sequences of characters.
Str_js  == <<"a", ".", "j", "s">>
Str_mjs == <<"a", ".", "m", "j", "s">>
Str_cjs == <<"a", ".", "c", "j", "s">>
Str_ts  == <<"a", ".", "t", "s">>
Str_bts == <<"b", ".", "t", "s">>
Str_mts == <<"a", ".", "m", "t", "s">>
Str_cts == <<"a", ".", "c", "t", "s">>
Str_jsx == <<"a", ".", "j", "s", "x">>
Str_tsx == <<"a", ".", "t", "s", "x">>
Str_txt == <<"a", ".", "t", "x", "t">>
Str_dts == <<"a", ".", "d", ".", "t", "s">>
Str_noext == <<"a">>
Str_dotfile == <<".", "t", "s">>
Str_dirdot == <<"d", ".", "t", "s", "/", "a">>

\* const jsesm_exts = [".js", ".mjs"] and the lists after it.
jsesm_exts == << <<".", "j", "s">>, <<".", "m", "j", "s">> >>
jscjs_exts == << <<".", "c", "j", "s">> >>
tsesm_exts == << <<".", "t", "s">>, <<".", "m", "t", "s">> >>
tscjs_exts == << <<".", "c", "t", "s">> >>
jsx_exts == << <<".", "j", "s", "x">>, <<".", "t", "s", "x">> >>
all_exts == jscjs_exts \o jsesm_exts \o tscjs_exts \o tsesm_exts \o jsx_exts

\* new Set(list): the elements of a list.
SetOf(list) == {list[k] : k \in 1..Len(list)}

\* Largest index of character c in s, 0 when there is none.
LastIndexOf(s, c) ==
  LET hits == {k \in 1..Len(s) : s[k] = c}
  IN IF hits = {} THEN 0 ELSE CHOOSE k \in hits : \A m \in hits : m <= k

\* path.basename as path.extname uses it: what follows the last "/".
Basename(p) == SubSeq(p, LastIndexOf(p, "/") + 1, Len(p))

\* path.extname(p): from the last "." of the last path segment to its end;
\* empty when there is no "." or when the only "." starts the segment.
\* (Paths here do not end in "/".)
Extname(p) ==
  LET b == Basename(p)
      d == LastIndexOf(b, ".")
  IN IF d <= 1 \/ b = <<".", ".">> THEN <<>> ELSE SubSeq(b, d, Len(b))

\* deps.map((dep) => path.extname(dep.file))
ExtsOf(ds) == [k \in 1..Len(ds) |-> Extname(ds[k].file)]

\* exts.every((i) => set.has(i)), evaluated left to right as Array.every does.
RECURSIVE EveryIn(_, _)
EveryIn(exts, set) ==
  IF exts = <<>> THEN TRUE
  ELSE IF Head(exts) \in set THEN EveryIn(Tail(exts), set) ELSE FALSE

\* Variant of IsCjs: one test against the union of the two CommonJS lists.
IsCjsEitherList(exts) == EveryIn(exts, SetOf(jscjs_exts) \cup SetOf(tscjs_exts))

\* The locals isCjs, isJs, isTs, isBoth, isNone of checkExtGroup.
IsCjs(exts) == EveryIn(exts, SetOf(jscjs_exts)) \/ EveryIn(exts, SetOf(tscjs_exts))
IsJsx(exts) == EveryIn(exts, SetOf(jsx_exts))
IsJs(exts) == EveryIn(exts, SetOf(jsesm_exts))
IsTs(exts) == EveryIn(exts, SetOf(tsesm_exts))
IsBoth(exts) == IsJs(exts) /\ IsTs(exts)
IsNone(exts) == ~EveryIn(exts, SetOf(all_exts))

\* The object the lenient checkExtGroup returns.
ExtFlags(ds) ==
  LET exts == ExtsOf(ds)
  IN [isNone |-> IsNone(exts), isJsx |-> IsJsx(exts), isCjs |-> IsCjs(exts),
      isBoth |-> IsBoth(exts), isJs |-> IsJs(exts), isTs |-> IsTs(exts)]

NoFlags ==
  [isNone |-> FALSE, isJsx |-> FALSE, isCjs |-> FALSE,
   isBoth |-> FALSE, isJs |-> FALSE, isTs |-> FALSE]

\* ------------------------------------------------------------ syntax trees

\* A node of the tree ts.createSourceFile builds: its SyntaxKind, whether its
\* modifiers hold ExportKeyword, the identifier text of a call's callee ("" when
\* the callee is no identifier), the number of call arguments, the tokens of
\* node.getText(sourceFile), whether visiting the node throws, and its children.
Node(kind, kids) ==
  [kind |-> kind, exported |-> FALSE, callee |-> "", nargs |-> 0,
   text |-> <<>>, faulty |-> FALSE, kids |-> kids]

Exported(kind) == [Node(kind, <<>>) EXCEPT !.exported = TRUE]
Call(callee, nargs) ==
  [Node("CallExpression", <<Node("Identifier", <<>>)>>) EXCEPT
     !.callee = callee, !.nargs = nargs]
Access(text) == [Node("PropertyAccessExpression", <<>>) EXCEPT !.text = text]
Faulty == [Node("Identifier", <<>>) EXCEPT !.faulty = TRUE]
File(kids) == Node("SourceFile", kids)

\* text.startsWith(prefix)
StartsWith(text, prefix) ==
  /\ Len(text) >= Len(prefix)
  /\ SubSeq(text, 1, Len(prefix)) = prefix

\* The first if of walk: import/export syntax.
IsEsmSyntax(node) ==
  node.kind \in {"ImportDeclaration", "ImportEqualsDeclaration",
                 "ExportDeclaration", "ExportSpecifier", "ExportAssignment"}

\* The second if of walk: a declaration whose modifiers hold ExportKeyword.
IsExportedDeclaration(node) ==
  /\ node.kind \in {"VariableStatement", "FunctionDeclaration",
                    "InterfaceDeclaration", "TypeAliasDeclaration",
                    "EnumDeclaration", "ClassDeclaration"}
  /\ node.exported

\* The third if of walk: require(...) with at least one argument.
IsRequireCall(node) ==
  /\ node.kind = "CallExpression"
  /\ node.callee = "require"
  /\ node.nargs > 0

\* The fourth if of walk: module.exports or exports.xxx, by text prefix.
IsExportsAccess(node) ==
  /\ node.kind = "PropertyAccessExpression"
  /\ \/ StartsWith(node.text, <<"module", ".", "exports">>)
     \/ StartsWith(node.text, <<"exports", ".">>)

\* walk(node) on the closure variables acc = [esm, cjs, threw]: the four checks
\* on the node, then ts.forEachChild(node, walk).  A throw leaves walk at once.
RECURSIVE walk(_, _)
RECURSIVE forEachChild(_, _)
walk(node, acc) ==
  IF acc.threw THEN acc
  ELSE IF node.faulty THEN [acc EXCEPT !.threw = TRUE]
  ELSE forEachChild(node.kids,
         [esm |-> acc.esm \/ IsEsmSyntax(node) \/ IsExportedDeclaration(node),
          cjs |-> acc.cjs \/ IsRequireCall(node) \/ IsExportsAccess(node),
          threw |-> FALSE])
forEachChild(kids, acc) ==
  IF kids = <<>> \/ acc.threw THEN acc
  ELSE forEachChild(Tail(kids), walk(Head(kids), acc))

\* The body of the try block up to the end of walk(sourceFile): the flags
\* hasESMImports and hasCommonJS, or threw when createSourceFile or walk throws.
Analyze(content) ==
  IF content.parseThrows THEN [esm |-> FALSE, cjs |-> FALSE, threw |-> TRUE]
  ELSE walk(content.tree, [esm |-> FALSE, cjs |-> FALSE, threw |-> FALSE])

\* Variant of Verdict: the second test without its "&& !hasESMImports".
VerdictCjsUnguarded(hasESMImports, hasCommonJS) ==
  IF hasESMImports /\ ~hasCommonJS THEN "esm"
  ELSE IF hasCommonJS THEN "cjs"
  ELSE "none"

\* The if / else-if chain after walk(sourceFile): which counter is incremented.
Verdict(hasESMImports, hasCommonJS) ==
  IF hasESMImports /\ ~hasCommonJS THEN "esm"
  ELSE IF hasCommonJS /\ ~hasESMImports THEN "cjs"
  ELSE IF hasESMImports /\ hasCommonJS THEN "esm"
  ELSE "none"

\* Variant of CountOne: the catch block without unknowCount++.
CountOneCatchSilent(c, content) ==
  LET r == Analyze(content)
  IN IF r.threw THEN c
     ELSE LET v == Verdict(r.esm, r.cjs)
          IN IF v = "esm" THEN [c EXCEPT !._esmCount = @ + 1]
             ELSE IF v = "cjs" THEN [c EXCEPT !.cjsCount = @ + 1]
             ELSE c

\* Variant of CountOne: the counters incremented inside walk, where a marker
\* is found, so that a file that throws later has already been counted.
CountOneInsideWalk(c, content) ==
  LET r == Analyze(content)
      v == Verdict(r.esm, r.cjs)
      d == IF v = "esm" THEN [c EXCEPT !._esmCount = @ + 1]
           ELSE IF v = "cjs" THEN [c EXCEPT !.cjsCount = @ + 1]
           ELSE c
  IN IF r.threw THEN [d EXCEPT !.unknowCount = @ + 1] ELSE d

\* One iteration of the for loop of checkModuleFormat on the counters c.
CountOne(c, content) ==
  LET r == Analyze(content)
  IN IF r.threw THEN [c EXCEPT !.unknowCount = @ + 1]
     ELSE LET v == Verdict(r.esm, r.cjs)
          IN IF v = "esm" THEN [c EXCEPT !._esmCount = @ + 1]
             ELSE IF v = "cjs" THEN [c EXCEPT !.cjsCount = @ + 1]
             ELSE c

ZeroCounts == [_esmCount |-> 0, cjsCount |-> 0, unknowCount |-> 0]

\* ---------------------------------------------------------------- contents

Src(tree) == [parseThrows |-> FALSE, tree |-> tree]

\* (no statement)
C_empty == Src(File(<<>>))
\* import x from "y";
C_import == Src(File(<<Node("ImportDeclaration", <<>>)>>))
\* export const a = 1;
C_exportConst == Src(File(<<Exported("VariableStatement")>>))
\* const x = require("y");
C_require == Src(File(<<Node("VariableStatement", <<Call("require", 1)>>)>>))
\* module.exports = f;
C_moduleExports ==
  Src(File(<<Node("ExpressionStatement",
                  <<Access(<<"module", ".", "exports">>)>>)>>))
\* exports.a = 1;
C_exportsDot ==
  Src(File(<<Node("ExpressionStatement", <<Access(<<"exports", ".", "a">>)>>)>>))
\* import x from "y"; const z = require("w");
C_mixed ==
  Src(File(<<Node("ImportDeclaration", <<>>),
             Node("VariableStatement", <<Call("require", 1)>>)>>))
\* const x = require(); foo.exports;
C_plain ==
  Src(File(<<Node("VariableStatement", <<Call("require", 0)>>),
             Node("ExpressionStatement", <<Access(<<"foo", ".", "exports">>)>>)>>))
\* an import, then a node whose visit throws
C_importThenThrow == Src(File(<<Node("ImportDeclaration", <<>>), Faulty>>))
\* a text createSourceFile throws on
C_unparsable == [parseThrows |-> TRUE, tree |-> File(<<>>)]

Contents ==
  {C_empty, C_import, C_exportConst, C_require, C_moduleExports, C_exportsDot,
   C_mixed, C_plain, C_importThenThrow, C_unparsable}

\* -------------------------------------------------------------------- state

VARIABLES
  entry,        \* the exported function that was called
  deps,         \* its argument: the batch of [file, content]
  noCheck,      \* compilerOptions.noCheck
  pc,           \* where the call is
  program,      \* per file, what the ts.Program holds for it; <<>> before createProgram
  i,            \* 1-based position of the running for loop
  _err,         \* checkTypes' _err
  _esmCount,    \* checkModuleFormat's counters
  cjsCount,
  unknowCount,
  flags,        \* the flag locals of checkExtGroup
  ce,           \* fileExtensionAndFormat's / check's ce: "unset", "true" or "flags"
  cm,           \* fileExtensionAndFormat's / check's cm: "unset", "true" or "counts"
  ret,          \* what the entry point returned: "unset", "true", "false", "undefined", "object"
  out,          \* the console lines printed so far
  exitAt        \* the function that called process.exit and the exit code

vars ==
  <<entry, deps, noCheck, pc, program, i, _err, _esmCount, cjsCount,
    unknowCount, flags, ce, cm, ret, out, exitAt>>

\* A console line: which message, and the 1-based file it is about (0: the batch).
Line(msg, file) == [line |-> msg, file |-> file]

\* process.exit(1) called in function f, and the state before any exit.
Exit(f) == [by |-> f, code |-> 1]
NoExit == [by |-> "", code |-> 0]

\* Variant of FirstCall: fileExtensionAndFormat calling checkModuleFormat first.
FirstCallFormatFirst(e) == IF e = "fileExtensionAndFormat" THEN "fmt" ELSE "types"

\* The first function an entry point calls: index.ts fileExtensionAndFormat
\* calls checkExtGroup; checkTypes is its own entry; index.cts check calls
\* checkTypes first.
FirstCall(e) == IF e = "fileExtensionAndFormat" THEN "ext" ELSE "types"

\* Where checkTypes' return leads: back into check, or to the caller.
AfterTypes(e) == IF e = "check" THEN "ext" ELSE "returned"

Strict == entry = "fileExtensionAndFormat"
Lenient == entry = "check"

Batches(names, contents, n) ==
  UNION {[1..k -> [file : names, content : contents]] : k \in 0..n}

InitLocals ==
  /\ program = <<>>
  /\ i = 1
  /\ _err = FALSE
  /\ _esmCount = 0
  /\ cjsCount = 0
  /\ unknowCount = 0
  /\ flags = NoFlags
  /\ ce = "unset"
  /\ cm = "unset"
  /\ ret = "unset"
  /\ out = <<>>
  /\ exitAt = NoExit

\* ---------------------------------------------------------------- checkTypes

\* if (!compilerOptions.noCheck) fails: checkTypes returns undefined.
CheckTypesSkipped ==
  /\ pc = "types"
  /\ noCheck
  /\ pc' = AfterTypes(entry)
  /\ ret' = IF entry = "checkTypes" THEN "undefined" ELSE ret
  /\ UNCHANGED <<entry, deps, noCheck, program, i, _err, _esmCount, cjsCount,
                 unknowCount, flags, ce, cm, out, exitAt>>

\* console.time, then ts.createProgram(filePaths, compilerOptions): the program
\* holds, for each file, no source file, diagnostics, or neither.
CreateProgram ==
  /\ pc = "types"
  /\ ~noCheck
  /\ \E p \in [1..Len(deps) -> {"ok", "diagnostics", "missing"}] : program' = p
  /\ out' = Append(out, Line("time: types checked", 0))
  /\ i' = 1
  /\ _err' = FALSE
  /\ pc' = "typesLoop"
  /\ UNCHANGED <<entry, deps, noCheck, _esmCount, cjsCount, unknowCount,
                 flags, ce, cm, ret, exitAt>>

\* ts.createProgram throws: it propagates out of checkTypes; check catches it
\* and throws its own Error.
CreateProgramThrows ==
  /\ pc = "types"
  /\ ~noCheck
  /\ out' = Append(out, Line("time: types checked", 0))
  /\ pc' = "threw"
  /\ UNCHANGED <<entry, deps, noCheck, program, i, _err, _esmCount, cjsCount,
                 unknowCount, flags, ce, cm, ret, exitAt>>

\* Variant of FileOutcome: process.exit as soon as a file has diagnostics.
FileOutcomeExitOnError(held) == IF held = "ok" THEN "pass" ELSE "exit"

\* What one iteration of the loop of checkTypes does with a file: "exit" when
\* the program has no source file for it, "error" when it has diagnostics.
FileOutcome(held) ==
  IF held = "missing" THEN "exit"
  ELSE IF held = "diagnostics" THEN "error"
  ELSE "pass"

\* One iteration of for (const filePath of filePaths).
CheckTypesFile ==
  /\ pc = "typesLoop"
  /\ i <= Len(deps)
  /\ IF FileOutcome(program[i]) = "exit"
     THEN /\ out' = Append(out, Line("File not found", i))
          /\ pc' = "exited"
          /\ exitAt' = Exit("checkTypes")
          /\ UNCHANGED <<i, _err>>
     ELSE IF FileOutcome(program[i]) = "error"
     THEN /\ out' = Append(out, Line("diagnostics", i))
          /\ _err' = TRUE
          /\ i' = i + 1
          /\ UNCHANGED <<pc, exitAt>>
     ELSE /\ i' = i + 1
          /\ UNCHANGED <<pc, exitAt, out, _err>>
  /\ UNCHANGED <<entry, deps, noCheck, program, _esmCount, cjsCount,
                 unknowCount, flags, ce, cm, ret>>

\* After the loop: if (_err) process.exit(1) else timeEnd and return true.
CheckTypesEnd ==
  /\ pc = "typesLoop"
  /\ i > Len(deps)
  /\ IF _err
     THEN /\ pc' = "exited"
          /\ exitAt' = Exit("checkTypes")
          /\ UNCHANGED <<out, ret>>
     ELSE /\ out' = Append(out, Line("timeEnd: types checked", 0))
          /\ pc' = AfterTypes(entry)
          /\ ret' = IF entry = "checkTypes" THEN "true" ELSE ret
          /\ UNCHANGED exitAt
  /\ UNCHANGED <<entry, deps, noCheck, program, i, _err, _esmCount, cjsCount,
                 unknowCount, flags, ce, cm>>

\* ------------------------------------------------------------- checkExtGroup

\* Variant of ExtPolicy: the isBoth test ahead of the isCjs test.
ExtPolicyBothFirst(exts) ==
  IF IsNone(exts) THEN "warn: none"
  ELSE IF IsBoth(exts) THEN "warn: both"
  ELSE IF IsCjs(exts) THEN "warn: commonjs extensions"
  ELSE ""

\* The three ifs of index.ts checkExtGroup: the warning of the first that
\* holds, "" when none holds and the function returns true.
ExtPolicy(exts) ==
  IF IsNone(exts) THEN "warn: none"
  ELSE IF IsCjs(exts) THEN "warn: commonjs extensions"
  ELSE IF IsBoth(exts) THEN "warn: both"
  ELSE ""

\* index.ts checkExtGroup, called by fileExtensionAndFormat after console.time.
CheckExtGroupStrict ==
  /\ pc = "ext"
  /\ Strict
  /\ LET exts == ExtsOf(deps)
         started == Append(out, Line("time: checked extension and module", 0))
     IN /\ flags' = [NoFlags EXCEPT !.isCjs = IsCjs(exts), !.isJs = IsJs(exts),
                                    !.isTs = IsTs(exts), !.isBoth = IsBoth(exts),
                                    !.isNone = IsNone(exts)]
        /\ IF ExtPolicy(exts) # ""
           THEN /\ out' = Append(started, Line(ExtPolicy(exts), 0))
                /\ pc' = "exited"
                /\ exitAt' = Exit("checkExtGroup")
                /\ UNCHANGED ce
           ELSE /\ out' = started
                /\ ce' = "true"
                /\ pc' = "fmt"
                /\ UNCHANGED exitAt
  /\ i' = 1
  /\ UNCHANGED <<entry, deps, noCheck, program, _err, _esmCount, cjsCount,
                 unknowCount, cm, ret>>

\* index.cts checkExtGroup, called by check.
CheckExtGroupLenient ==
  /\ pc = "ext"
  /\ Lenient
  /\ flags' = ExtFlags(deps)
  /\ ce' = "flags"
  /\ pc' = "fmt"
  /\ i' = 1
  /\ UNCHANGED <<entry, deps, noCheck, program, _err, _esmCount, cjsCount,
                 unknowCount, cm, ret, out, exitAt>>

\* --------------------------------------------------------- checkModuleFormat

\* One iteration of for (const dep of deps): the try block and its catch.
CheckModuleFormatFile ==
  /\ pc = "fmt"
  /\ i <= Len(deps)
  /\ LET c == CountOne([_esmCount |-> _esmCount, cjsCount |-> cjsCount,
                        unknowCount |-> unknowCount], deps[i].content)
     IN /\ _esmCount' = c._esmCount
        /\ cjsCount' = c.cjsCount
        /\ unknowCount' = c.unknowCount
        /\ out' = IF c.unknowCount > unknowCount
                  THEN Append(out, Line("Error checking module format", i))
                  ELSE out
  /\ i' = i + 1
  /\ UNCHANGED <<entry, deps, noCheck, pc, program, _err, flags, ce, cm, ret,
                 exitAt>>

\* Variant of FormatPolicy: without the cjsCount test.
FormatPolicyUnknownOnly(unknown, cjs) ==
  IF unknown # 0 THEN "warn: unknown error" ELSE ""

\* Variant of FormatPolicy: the cjsCount test ahead of the unknowCount test.
FormatPolicyCjsFirst(unknown, cjs) ==
  IF cjs # 0 THEN "warn: commonjs format"
  ELSE IF unknown # 0 THEN "warn: unknown error"
  ELSE ""

\* The two ifs after the loop of index.ts checkModuleFormat: the warning of the
\* first that holds, "" when none holds and the function returns true.
FormatPolicy(unknown, cjs) ==
  IF unknown # 0 THEN "warn: unknown error"
  ELSE IF cjs # 0 THEN "warn: commonjs format"
  ELSE ""

\* index.ts: the two checks after the loop, then return true; back in
\* fileExtensionAndFormat, console.timeEnd and return ce && cm.
CheckModuleFormatEndStrict ==
  /\ pc = "fmt"
  /\ i > Len(deps)
  /\ Strict
  /\ IF FormatPolicy(unknowCount, cjsCount) # ""
     THEN /\ out' = Append(out, Line(FormatPolicy(unknowCount, cjsCount), 0))
          /\ pc' = "exited"
          /\ exitAt' = Exit("checkModuleFormat")
          /\ UNCHANGED <<cm, ret>>
     ELSE /\ cm' = "true"
          /\ out' = Append(out, Line("timeEnd: checked extension and module", 0))
          /\ ret' = IF ce = "true" /\ cm' = "true" THEN "true" ELSE "false"
          /\ pc' = "returned"
          /\ UNCHANGED exitAt
  /\ UNCHANGED <<entry, deps, noCheck, program, i, _err, _esmCount, cjsCount,
                 unknowCount, flags, ce>>

\* index.cts: return { unknowCount, cjsCount }; check returns { ...ce, ...cm }.
CheckModuleFormatEndLenient ==
  /\ pc = "fmt"
  /\ i > Len(deps)
  /\ Lenient
  /\ cm' = "counts"
  /\ ret' = "object"
  /\ pc' = "returned"
  /\ UNCHANGED <<entry, deps, noCheck, program, i, _err, _esmCount, cjsCount,
                 unknowCount, flags, ce, out, exitAt>>

\* ------------------------------------------------------------ specifications

\* The file names and contents of the batches of Spec.
Names == {Str_ts, Str_js, Str_cjs, Str_txt}
SomeContents == {C_empty, C_import, C_require, C_mixed, C_importThenThrow}

\* A call of any of the three entry points.
Init ==
  /\ entry \in {"fileExtensionAndFormat", "checkTypes", "check"}
  /\ deps \in Batches(Names, SomeContents, MaxLen)
  /\ noCheck \in IF entry = "fileExtensionAndFormat" THEN {FALSE} ELSE BOOLEAN
  /\ pc = FirstCall(entry)
  /\ InitLocals

Next ==
  \/ CheckTypesSkipped
  \/ CreateProgram
  \/ CreateProgramThrows
  \/ CheckTypesFile
  \/ CheckTypesEnd
  \/ CheckExtGroupStrict
  \/ CheckExtGroupLenient
  \/ CheckModuleFormatFile
  \/ CheckModuleFormatEndStrict
  \/ CheckModuleFormatEndLenient

Spec == Init /\ [][Next]_vars

\* checkExtGroup of either file on batches of every kind of file name.
AllNames ==
  {Str_js, Str_mjs, Str_cjs, Str_ts, Str_bts, Str_mts, Str_cts, Str_jsx,
   Str_tsx, Str_txt, Str_dts, Str_noext, Str_dotfile, Str_dirdot}

InitExt ==
  /\ entry \in {"fileExtensionAndFormat", "check"}
  /\ deps \in Batches(AllNames, {C_import}, MaxExtLen)
  /\ noCheck = (entry = "check")
  /\ pc = "ext"
  /\ InitLocals

NextExt == CheckExtGroupStrict \/ CheckExtGroupLenient

SpecExt == InitExt /\ [][NextExt]_vars

\* checkModuleFormat of either file on batches of every kind of content, from
\* the state in which checkExtGroup has returned (in index.ts it returns only
\* on a batch that is not empty).
InitFmt ==
  /\ entry \in {"fileExtensionAndFormat", "check"}
  /\ deps \in Batches({Str_ts}, Contents, MaxFmtLen)
  /\ entry = "fileExtensionAndFormat" => deps # <<>>
  /\ noCheck = (entry = "check")
  /\ pc = "fmt"
  /\ flags = ExtFlags(deps)
  /\ ce = IF entry = "check" THEN "flags" ELSE "true"
  /\ program = <<>>
  /\ i = 1
  /\ _err = FALSE
  /\ _esmCount = 0
  /\ cjsCount = 0
  /\ unknowCount = 0
  /\ cm = "unset"
  /\ ret = "unset"
  /\ out = IF entry = "check" THEN <<>>
           ELSE <<Line("time: checked extension and module", 0)>>
  /\ exitAt = NoExit

NextFmt ==
  \/ CheckModuleFormatFile
  \/ CheckModuleFormatEndStrict
  \/ CheckModuleFormatEndLenient

SpecFmt == InitFmt /\ [][NextFmt]_vars

\* ------------------------------------------------- vocabulary of the claims

\* The suffix of file k of the batch, and the suffix groups as the
\* specification lists them.
Suffix(k) == Extname(deps[k].file)
Indices == 1..Len(deps)
SuffixCjsJs == {<<".", "c", "j", "s">>}
SuffixCjsTs == {<<".", "c", "t", "s">>}
SuffixEsmJs == {<<".", "j", "s">>, <<".", "m", "j", "s">>}
SuffixEsmTs == {<<".", "t", "s">>, <<".", "m", "t", "s">>}
SuffixJsx == {<<".", "j", "s", "x">>, <<".", "t", "s", "x">>}
Recognized == SuffixCjsJs \cup SuffixCjsTs \cup SuffixEsmJs \cup SuffixEsmTs \cup SuffixJsx

BatchIsNone == \E k \in Indices : Suffix(k) \notin Recognized
BatchIsCjs ==
  \/ \A k \in Indices : Suffix(k) \in SuffixCjsJs
  \/ \A k \in Indices : Suffix(k) \in SuffixCjsTs
BatchIsJsx == \A k \in Indices : Suffix(k) \in SuffixJsx
BatchIsJs == \A k \in Indices : Suffix(k) \in SuffixEsmJs
BatchIsTs == \A k \in Indices : Suffix(k) \in SuffixEsmTs
BatchIsBoth == BatchIsJs /\ BatchIsTs

FileNames == [k \in Indices |-> deps[k].file]

\* The marker flags of file k, and whether its parse or traversal throws.
Threw(k) == Analyze(deps[k].content).threw
HasEsm(k) == ~Threw(k) /\ Analyze(deps[k].content).esm
HasCjs(k) == ~Threw(k) /\ Analyze(deps[k].content).cjs
Neither(k) == ~Threw(k) /\ ~HasEsm(k) /\ ~HasCjs(k)

\* checkModuleFormat has started, and the files its loop has finished.
InFormat == pc = "fmt" \/ cm # "unset" \/ exitAt.by = "checkModuleFormat"
Scanned == IF InFormat THEN 1..(i - 1) ELSE {}
ScanOver == InFormat /\ i > Len(deps)

\* The counters of a whole run of the loop on a list of contents.
RECURSIVE Tally(_)
Tally(cs) ==
  IF cs = <<>> THEN ZeroCounts
  ELSE CountOne(Tally(SubSeq(cs, 1, Len(cs) - 1)), cs[Len(cs)])

\* The contents of the scanned files, and those among them that do not throw.
ScannedContents == [k \in Scanned |-> deps[k].content]
Parses(c) == ~Analyze(c).threw
WithoutFailing == SelectSeq(ScannedContents, Parses)

\* What has been printed.
Printed(msg) == \E k \in 1..Len(out) : out[k].line = msg
PrintedFor(msg, file) == \E k \in 1..Len(out) : out[k] = Line(msg, file)
TimesPrinted(msg) == Cardinality({k \in 1..Len(out) : out[k].line = msg})

WarningLines ==
  {"warn: none", "warn: commonjs extensions", "warn: both",
   "warn: unknown error", "warn: commonjs format"}
IsWarning(l) == l.line \in WarningLines
Warnings == SelectSeq(out, IsWarning)

\* ------------------------------------------------------------------- claims

\* C1 as stated: after checkModuleFormat has processed the batch, esmCount +
\* cjsCount equals the batch size minus the number of files that threw, every
\* file having contributed to exactly one bucket.
C1_AsStated ==
  ScanOver =>
    /\ unknowCount = Cardinality({k \in Indices : Threw(k)})
    /\ _esmCount + cjsCount = Len(deps) - Cardinality({k \in Indices : Threw(k)})

\* C1 amended: at every point of the scan each finished file has contributed to
\* exactly one of esmCount, cjsCount, unknownCount, or, when it has neither
\* marker, to none; so esmCount + cjsCount equals the number of finished files
\* minus those that threw minus those with neither marker, and unknownCount is
\* the number that threw.
C1_Buckets ==
  InFormat =>
    /\ unknowCount = Cardinality({k \in Scanned : Threw(k)})
    /\ _esmCount + cjsCount =
         Cardinality(Scanned) - Cardinality({k \in Scanned : Threw(k)})
           - Cardinality({k \in Scanned : Neither(k)})

C1_Witness ==
  /\ ScanOver
  /\ Len(deps) = 3
  /\ unknowCount = 1
  /\ _esmCount + cjsCount = 1
  /\ \E k \in Indices : Neither(k)

\* C2: for the files whose traversal completes the verdict depends on the two
\* marker flags only: ESM marker (with or without the CommonJS marker) counts
\* in esmCount, CommonJS marker alone counts in cjsCount, neither marker
\* counts nowhere and prints no error.
C2_Verdict ==
  InFormat =>
    /\ _esmCount = Cardinality({k \in Scanned : HasEsm(k)})
    /\ cjsCount = Cardinality({k \in Scanned : HasCjs(k) /\ ~HasEsm(k)})
    /\ unknowCount = Cardinality({k \in Scanned : Threw(k)})
    /\ \A k \in Scanned :
         ~Threw(k) => ~PrintedFor("Error checking module format", k)

C2_Witness ==
  /\ ScanOver
  /\ \E k \in Indices : HasEsm(k) /\ HasCjs(k)
  /\ \E k \in Indices : Neither(k)
  /\ \E k \in Indices : HasCjs(k) /\ ~HasEsm(k)
  /\ _esmCount = 1
  /\ cjsCount = 1

\* C3: a file whose parse or traversal throws adds exactly 1 to unknownCount
\* and prints one error line; the loop goes on to the end of the batch, and
\* esmCount and cjsCount are those of the same files without the failing ones.
C3_Isolation ==
  InFormat =>
    /\ unknowCount = Len(ScannedContents) - Len(WithoutFailing)
    /\ _esmCount = Tally(WithoutFailing)._esmCount
    /\ cjsCount = Tally(WithoutFailing).cjsCount
    /\ \A k \in Scanned : Threw(k) <=> PrintedFor("Error checking module format", k)
    /\ TimesPrinted("Error checking module format") = unknowCount
    /\ pc # "fmt" => i = Len(deps) + 1

C3_Witness ==
  /\ ScanOver
  /\ Len(deps) = 3
  /\ HasEsm(1)
  /\ Threw(2)
  /\ HasCjs(3) /\ ~HasEsm(3)
  /\ _esmCount = 1
  /\ cjsCount = 1
  /\ unknowCount = 1

C5_MixedDialectsExit ==
  ( /\ Strict
    /\ pc # "ext"
    /\ \E k \in Indices : Suffix(k) \in SuffixEsmJs
    /\ \E k \in Indices : Suffix(k) \in SuffixEsmTs )
  => (exitAt.by = "checkExtGroup" /\ exitAt.code # 0 /\ ce # "true")

\* C6 as stated: when a run of index.ts exits, each of isNone, isCjs, isBoth,
\* unknownCount > 0, cjsCount > 0 that holds has had its warning printed.
C6_AsStated ==
  (Strict /\ pc = "exited") =>
    /\ flags.isNone => Printed("warn: none")
    /\ flags.isCjs => Printed("warn: commonjs extensions")
    /\ flags.isBoth => Printed("warn: both")
    /\ unknowCount > 0 => Printed("warn: unknown error")
    /\ cjsCount > 0 => Printed("warn: commonjs format")

\* C6 amended: a run of index.ts that exits has printed exactly one warning
\* line, as its last line: that of the first check that fails, in the order
\* isNone, isCjs, isBoth, unknownCount > 0, cjsCount > 0.
C6_FirstWarningOnly ==
  (Strict /\ pc = "exited") =>
    /\ Len(Warnings) = 1
    /\ out[Len(out)] = Warnings[1]
    /\ Warnings[1].line =
         IF BatchIsNone THEN "warn: none"
         ELSE IF BatchIsCjs THEN "warn: commonjs extensions"
         ELSE IF BatchIsBoth THEN "warn: both"
         ELSE IF \E k \in Indices : Threw(k) THEN "warn: unknown error"
         ELSE "warn: commonjs format"

C6_Witness ==
  /\ Strict
  /\ pc = "exited"
  /\ unknowCount > 0
  /\ cjsCount > 0
  /\ Printed("warn: unknown error")

\* C7 as stated: when checkTypes ends the process every file of the batch has
\* been visited and the diagnostics of every file that has some are printed;
\* when index.ts checkModuleFormat ends it every file has been processed.
C7_AsStated ==
  /\ exitAt.by = "checkTypes" =>
       /\ i > Len(deps)
       /\ \A k \in Indices : program[k] = "diagnostics" => PrintedFor("diagnostics", k)
  /\ exitAt.by = "checkModuleFormat" => i > Len(deps)

\* C7 amended: checkTypes ends the process either at the first file the
\* program has no source file for, at once, with the diagnostics of the files
\* before it printed and the files after it not visited, or, when no file is
\* missing, after the whole batch with the diagnostics of every file printed;
\* index.ts checkModuleFormat ends it only after the whole batch.
C7_ExitAfterScan ==
  /\ exitAt.by = "checkTypes" =>
       IF \E k \in Indices : program[k] = "missing"
       THEN /\ program[i] = "missing"
            /\ \A k \in 1..(i - 1) : program[k] # "missing"
            /\ out[Len(out)] = Line("File not found", i)
            /\ \A k \in Indices :
                 PrintedFor("diagnostics", k) <=> (k < i /\ program[k] = "diagnostics")
       ELSE /\ i = Len(deps) + 1
            /\ \E k \in Indices : program[k] = "diagnostics"
            /\ \A k \in Indices :
                 PrintedFor("diagnostics", k) <=> program[k] = "diagnostics"
  /\ exitAt.by = "checkModuleFormat" =>
       /\ i = Len(deps) + 1
       /\ \A k \in Indices : Threw(k) <=> PrintedFor("Error checking module format", k)

C7_Witness ==
  /\ exitAt.by = "checkTypes"
  /\ Len(deps) = 2
  /\ program = <<"diagnostics", "diagnostics">>
  /\ PrintedFor("diagnostics", 1)
  /\ PrintedFor("diagnostics", 2)

C9_AsStated ==
  ( /\ entry \in {"fileExtensionAndFormat", "check"}
    /\ \/ pc \in {"typesLoop", "fmt"}
       \/ exitAt.by \in {"checkTypes", "checkModuleFormat"} )
  => ce # "unset"

\* C9 amended: in both entry points checkExtGroup has completed before
\* checkModuleFormat starts or ends the process; in check, checkTypes runs, and
\* may end the process, before checkExtGroup starts; fileExtensionAndFormat
\* does no type checking.
C9_Order ==
  /\ InFormat => ce # "unset"
  /\ Lenient =>
       /\ (pc \in {"types", "typesLoop", "threw"} \/ exitAt.by = "checkTypes")
            => ce = "unset"
       /\ (ce # "unset" /\ ~noCheck) => Printed("timeEnd: types checked")
       /\ exitAt.by \in {"", "checkTypes"}
  /\ Strict => (program = <<>> /\ exitAt.by # "checkTypes")

C9_Witness ==
  /\ Lenient
  /\ ~noCheck
  /\ Len(deps) = 2
  /\ pc = "returned"
  /\ ce = "flags"
  /\ cm = "counts"

====
